---- MODULE Spec2Model ----
(***************************************************************************)
(* Model of python_examples/maths_module.py: random_vector,                *)
(* random_translate_vector, metropolis and rotate_vector, together with    *)
(* the ambient random source (np.random) they draw from.                   *)
(*                                                                         *)
(* One action per function; an action is the whole call, from entry to     *)
(* return.  ReturnToCaller is the caller dropping the returned value       *)
(* before the next call: the functions keep no state of their own, only    *)
(* the random source's stream position survives a call.                    *)
(***************************************************************************)
EXTENDS Integers, Sequences, FiniteSets

VARIABLES
    pc,         \* "idle": no call in progress; "returned": a call has returned
    op,         \* name of the function of the last call
    args,       \* its arguments
    rngPos,     \* state of the random source: samples consumed since start
    rngBefore,  \* rngPos at entry of the last call
    calls,      \* calls into the random source made by the last call
    drawn,      \* the samples those calls returned, in order
    exps,       \* evaluations of np.exp made by the last call
    result      \* what the last call returned, or the assertion it failed

vars == <<pc, op, args, rngPos, rngBefore, calls, drawn, exps, result>>

----------------------------------------------------------------------------
(* Bounds of the model. *)

\* np.random.rand returns multiples of 2^-53 in [0,1); the model draws from
\* the coarser grid of multiples of 2^-RngBits, each of which is a value the
\* real generator can return.
RngBits == 2

\* Samples the random source can hand out before the model stops drawing.
MaxStream == 3

\* Significant bits of the floating-point format of the model (binary64
\* keeps 53).
Prec == 4

\* random_translate_vector is called with dr_max = -1 .. MaxDr whole units.
MaxDr == 3

\* rotate_vector is called with angles whose cosine and sine have numerators
\* -MaxTrig .. MaxTrig (over 1 or 5), with axis numerators 0 .. MaxAxis (over
\* 1 or 3), and with old components -1 .. MaxOld.
MaxTrig == 5
MaxAxis == 2
MaxOld == 1

\* metropolis is called with the integer deltas -NegDeltas .. 75 + OverGuard.
NegDeltas == 2
OverGuard == 3

----------------------------------------------------------------------------
(* Small helpers. *)

RECURSIVE Pow2(_)
Pow2(n) == IF n = 0 THEN 1 ELSE 2 * Pow2(n - 1)

Abs(x) == IF x < 0 THEN -x ELSE x

Max(a, b) == IF a >= b THEN a ELSE b

\* A sample of the random source is k / RngDen for k in Samples.
RngDen == Pow2(RngBits)

Samples == 0 .. (RngDen - 1)

----------------------------------------------------------------------------
(* The random source. *)

\* A separate call np.random.rand() for every sample.
np_random_rand_per_sample(zs) ==
    /\ rngPos + Len(zs) <= MaxStream
    /\ rngPos' = rngPos + Len(zs)
    /\ calls' = Len(zs)
    /\ drawn' = zs

\* One call np.random.rand(...) that returns the samples zs.
np_random_rand(zs) ==
    /\ rngPos + Len(zs) <= MaxStream
    /\ rngPos' = rngPos + Len(zs)
    /\ calls' = 1
    /\ drawn' = zs

\* A path through a function that never calls the random source.
NoRandomCall ==
    /\ rngPos' = rngPos
    /\ calls' = 0
    /\ drawn' = <<>>

----------------------------------------------------------------------------
(* Exact real arithmetic for random_vector.                                *)
(*                                                                         *)
(* A rational is [num, den] with den > 0.  A real of the form              *)
(* sgn * sqrt(num / den), sgn in {-1, 0, 1}, is the record [sgn, num, den]:*)
(* every value random_vector computes from a sample grid of quarter or     *)
(* eighth turns has this form, so nothing is rounded.                      *)

Sign(x) == IF x > 0 THEN 1 ELSE IF x < 0 THEN -1 ELSE 0

\* The rational n / d as a signed root.
RootOfRational(n, d) == [sgn |-> Sign(n), num |-> n * n, den |-> d * d]

\* np.sqrt(n / d): the non-negative root; numpy returns nan for a negative
\* argument.
np_sqrt(n, d) ==
    IF n < 0 THEN [nan |-> TRUE]
    ELSE [sgn |-> Sign(n), num |-> n, den |-> d]

\* Product of two signed roots.
RootTimes(a, b) ==
    [sgn |-> a.sgn * b.sgn, num |-> a.num * b.num, den |-> a.den * b.den]

\* The angle phi = zeta * 2.0*np.pi for the sample zeta = k / RngDen, in
\* eighths of a turn (exact while RngDen divides 8).
EighthTurns(k) == (8 * k) \div RngDen

\* np.cos(phi) for phi = j eighths of a turn: 0, +-1 or +-sqrt(1/2).
np_cos(j) ==
    LET sgn == IF j % 8 \in {0, 1, 7} THEN 1
               ELSE IF j % 8 \in {3, 4, 5} THEN -1 ELSE 0
    IN  IF j % 2 = 1 THEN [sgn |-> sgn, num |-> 1, den |-> 2]
        ELSE [sgn |-> sgn, num |-> sgn * sgn, den |-> 1]

\* np.sin(phi) for phi = j eighths of a turn.
np_sin(j) ==
    LET sgn == IF j % 8 \in {1, 2, 3} THEN 1
               ELSE IF j % 8 \in {5, 6, 7} THEN -1 ELSE 0
    IN  IF j % 2 = 1 THEN [sgn |-> sgn, num |-> 1, den |-> 2]
        ELSE [sgn |-> sgn, num |-> sgn * sgn, den |-> 1]

----------------------------------------------------------------------------
(* random_vector *)

\* The shift forgotten: c = 2.0*zeta[0].
CosThetaNoShift(k) == 2 * k

\* c = 2.0*zeta[0] - 1.0, as the numerator over RngDen.
CosTheta(k) == 2 * k - RngDen

\* s: 0.0 if c >= 1.0, else np.sqrt(1.0 - c**2).
SinTheta(c) ==
    IF c >= RngDen THEN [sgn |-> 0, num |-> 0, den |-> 1]
    ELSE np_sqrt(RngDen * RngDen - c * c, RngDen * RngDen)

\* np.array((s*np.cos(phi), s*np.sin(phi), c)) for the samples zeta.
RandomUnitVector(zeta) ==
    LET c   == CosTheta(zeta[1])
        s   == SinTheta(c)
        phi == EighthTurns(zeta[2])
    IN  IF "nan" \in DOMAIN s
        THEN [kind |-> "nan"]
        ELSE [kind |-> "vector",
              v |-> << RootTimes(s, np_cos(phi)),
                       RootTimes(s, np_sin(phi)),
                       RootOfRational(c, RngDen) >>]

random_vector ==
    /\ pc = "idle"
    /\ pc' = "returned"
    /\ op' = "random_vector"
    /\ args' = [none |-> TRUE]
    /\ rngBefore' = rngPos
    /\ exps' = 0
    /\ \E u1 \in Samples, u2 \in Samples :
        /\ np_random_rand(<<u1, u2>>)
        /\ result' = RandomUnitVector(<<u1, u2>>)

----------------------------------------------------------------------------
(* Floating-point arithmetic for random_translate_vector.                  *)
(*                                                                         *)
(* A float is an integer number of quanta, one quantum being 1 / RngDen    *)
(* (the spacing of the samples).  The format keeps Prec significant bits   *)
(* and rounds to nearest, ties to even, as binary64 does with 53 bits.     *)

\* The spacing of the floats around a value of magnitude a: the least power
\* of two u, from u upward, with a < 2^Prec * u.
RECURSIVE UlpFrom(_, _)
UlpFrom(a, u) == IF a < Pow2(Prec) * u THEN u ELSE UlpFrom(a, 2 * u)

Ulp(x) == UlpFrom(Abs(x), 1)

\* The exact value x rounded to the format.
Fl(x) ==
    LET a  == Abs(x)
        u  == Ulp(x)
        q  == a \div u
        r  == a % u
        up == 2 * r > u \/ (2 * r = u /\ q % 2 = 1)
    IN  Sign(x) * (IF up THEN q + 1 ELSE q) * u

Representable(x) == Fl(x) = x

----------------------------------------------------------------------------
(* random_translate_vector *)

\* dr_max in whole units; a negative one is not rejected by the code.
DrMaxs == (0 - 1) .. MaxDr

\* Components of old, in quanta: zero, a small negative value, and a value
\* large enough that the floats around it are more than a quantum apart.
OldComps == {0, 0 - 3 * RngDen, 5 * Pow2(Prec + 1)}

OldVectors == {<<x, y, z>> : x \in OldComps, y \in OldComps, z \in OldComps}

\* The shift forgotten: zeta = 2.0*zeta.
SymmetrizeNoShift(k) == Fl(2 * k)

\* zeta = 2.0*zeta - 1.0 for the sample zeta = k / RngDen, in quanta.
Symmetrize(k) == Fl(Fl(2 * k) - RngDen)

\* zeta * dr_max, in quanta, for the symmetrized sample w and dr_max units.
Offset(w, dr_max) == Fl(w * dr_max)

\* old + zeta * dr_max, componentwise.
Translate(dr_max, old, zeta) ==
    [i \in 1..3 |-> Fl(old[i] + Offset(Symmetrize(zeta[i]), dr_max))]

random_translate_vector(dr_max, old) ==
    /\ pc = "idle"
    /\ pc' = "returned"
    /\ op' = "random_translate_vector"
    /\ args' = [dr_max |-> dr_max, old |-> old]
    /\ rngBefore' = rngPos
    /\ exps' = 0
    /\ \E z1 \in Samples, z2 \in Samples, z3 \in Samples :
        /\ np_random_rand(<<z1, z2, z3>>)
        /\ result' = [kind |-> "vector",
                      v |-> Translate(dr_max, old, <<z1, z2, z3>>)]

----------------------------------------------------------------------------
(* metropolis *)

exponent_guard == 75

Deltas == (0 - NegDeltas) .. (exponent_guard + OverGuard)

\* e^n in thousandths for n >= 0, computed with e = 2.718: p is the power
\* reached so far and n the multiplications left.  The product saturates once
\* it exceeds every ratio RngDen / k the comparison with a sample can need.
RECURSIVE EPowFrom(_, _)
EPowFrom(p, n) ==
    IF n = 0 \/ p > 1000 * RngDen THEN p
    ELSE EPowFrom((p * 2718) \div 1000, n - 1)

EPowMilli(n) == EPowFrom(1000, n)

\* np.exp(x) for an integer x, as a positive rational num / den.  For large
\* negative x the value saturates at a positive number below every positive
\* sample; it is never 0 (binary64 exp(-delta) is positive up to delta = 745).
np_exp(x) ==
    IF x >= 0 THEN [num |-> EPowMilli(x), den |-> 1000]
              ELSE [num |-> 1000, den |-> EPowMilli(0 - x)]

\* r > zeta for a rational r and the sample zeta = k / RngDen.
GreaterThanSample(r, k) == r.num * RngDen > k * r.den

\* The guard set one too high.
TooHighOffByOne(delta) == delta > exponent_guard + 1

\* The guard mistyped as 750.0: no delta of the model takes the early exit.
TooHighMistyped(delta) == delta > 10 * exponent_guard

\* delta > exponent_guard
TooHigh(delta) == delta > exponent_guard

\* The downhill test missing the deltas in [-1, 0).
DownhillBelowMinusOne(delta) == delta < 0 - 1

\* delta < 0.0
Downhill(delta) == delta < 0

\* The exponent with the wrong sign: np.exp(delta) > zeta.
MetropolisTestWrongSign(delta, zeta) == GreaterThanSample(np_exp(delta), zeta)

\* np.exp(-delta) > zeta
MetropolisTest(delta, zeta) == GreaterThanSample(np_exp(0 - delta), zeta)

metropolis(delta) ==
    /\ pc = "idle"
    /\ pc' = "returned"
    /\ op' = "metropolis"
    /\ args' = [delta |-> delta]
    /\ rngBefore' = rngPos
    /\ IF TooHigh(delta)
       THEN /\ NoRandomCall
            /\ exps' = 0
            /\ result' = [kind |-> "bool", accept |-> FALSE]
       ELSE IF Downhill(delta)
       THEN /\ NoRandomCall
            /\ exps' = 0
            /\ result' = [kind |-> "bool", accept |-> TRUE]
       ELSE \E zeta \in Samples :
            /\ np_random_rand(<<zeta>>)
            /\ exps' = 1
            /\ result' = [kind |-> "bool", accept |-> MetropolisTest(delta, zeta)]

----------------------------------------------------------------------------
(* rotate_vector, in exact rational arithmetic.                            *)
(*                                                                         *)
(* angle is named by the point (c, s) / d of the unit circle it turns to:  *)
(* np.cos(angle) = c / d and np.sin(angle) = s / d.  axis is the array     *)
(* n / d of integer numerators n over one denominator d, old an array of   *)
(* integers.  Arrays are sequences; their size is their length.            *)

\* Rational points of the unit circle: the four quarter turns, and the 3-4-5
\* points of positive cosine.
Angles ==
    {a \in [c : (0 - MaxTrig) .. MaxTrig, s : (0 - MaxTrig) .. MaxTrig, d : {1, 5}] :
        /\ a.c * a.c + a.s * a.s = a.d * a.d
        /\ a.d = 1 \/ (a.c > 0 /\ a.s # 0)}

AxisComps == 0 .. MaxAxis

\* Arrays of a wrong size, for old and for the numerators of axis.
MalformedArrays == {<<>>, <<1, 0>>, <<0, 0, 1, 0>>}

Axes ==
    {[n |-> n, d |-> d] :
        n \in {<<x, y, z>> : x \in AxisComps, y \in AxisComps, z \in AxisComps}
              \cup MalformedArrays,
        d \in {1, 3}}

OldRange == (0 - 1) .. MaxOld

Olds ==
    {<<x, y, z>> : x \in OldRange, y \in OldRange, z \in OldRange}
    \cup MalformedArrays

RECURSIVE SumSeq(_)
SumSeq(q) == IF q = <<>> THEN 0 ELSE Head(q) + SumSeq(Tail(q))

\* np.sum(axis**2), as the rational num / den.
SumOfSquares(axis) ==
    [num |-> SumSeq([i \in 1..Len(axis.n) |-> axis.n[i] * axis.n[i]]),
     den |-> axis.d * axis.d]

\* math.isclose(r, 1.0) for the rational r = num / den >= 0, with the default
\* rel_tol = 1e-09 and abs_tol = 0.0:
\* abs(r - 1.0) <= 1e-09 * max(abs(r), abs(1.0)).
isclose_one(r) ==
    Abs(r.num - r.den) <= Max(r.num, r.den) \div 1000000000

\* np.dot(axis, old), as the numerator over axis.d.
Dot(axis, old) ==
    axis.n[1] * old[1] + axis.n[2] * old[2] + axis.n[3] * old[3]

\* np.cross(axis, old), as numerators over axis.d.
Cross(axis, old) ==
    << axis.n[2] * old[3] - axis.n[3] * old[2],
       axis.n[3] * old[1] - axis.n[1] * old[3],
       axis.n[1] * old[2] - axis.n[2] * old[1] >>

\* The wrong sign in the projection term: (1.0 + c) * proj * axis.
GoldsteinOnePlusCos(angle, axis, old) ==
    LET proj == Dot(axis, old)
        x    == Cross(axis, old)
    IN  [kind |-> "vector",
         den  |-> angle.d * axis.d * axis.d,
         v    |-> [i \in 1..3 |->
                     angle.c * axis.d * axis.d * old[i]
                     + (angle.d + angle.c) * proj * axis.n[i]
                     + angle.s * axis.d * x[i]]]

\* e = c * old + (1.0 - c) * proj * axis + s * np.cross(axis, old), as
\* numerators over the denominator angle.d * axis.d^2.
Goldstein(angle, axis, old) ==
    LET proj == Dot(axis, old)
        x    == Cross(axis, old)
    IN  [kind |-> "vector",
         den  |-> angle.d * axis.d * axis.d,
         v    |-> [i \in 1..3 |->
                     angle.c * axis.d * axis.d * old[i]
                     + (angle.d - angle.c) * proj * axis.n[i]
                     + angle.s * axis.d * x[i]]]

\* The unit-length assertion left out.
RotateWithoutUnitCheck(angle, axis, old) ==
    IF Len(old) # 3
    THEN [kind |-> "AssertionError", msg |-> "Incorrect size of old"]
    ELSE IF Len(axis.n) # 3
    THEN [kind |-> "AssertionError", msg |-> "Incorrect size of axis"]
    ELSE Goldstein(angle, axis, old)

\* The two size assertions in the other order.
RotateAxisSizeFirst(angle, axis, old) ==
    IF Len(axis.n) # 3
    THEN [kind |-> "AssertionError", msg |-> "Incorrect size of axis"]
    ELSE IF Len(old) # 3
    THEN [kind |-> "AssertionError", msg |-> "Incorrect size of old"]
    ELSE IF ~ isclose_one(SumOfSquares(axis))
    THEN [kind |-> "AssertionError", msg |-> "Non-unit vector", shown |-> axis]
    ELSE Goldstein(angle, axis, old)

\* The three assertions, in the order of the code, then the rotation.
Rotate(angle, axis, old) ==
    IF Len(old) # 3
    THEN [kind |-> "AssertionError", msg |-> "Incorrect size of old"]
    ELSE IF Len(axis.n) # 3
    THEN [kind |-> "AssertionError", msg |-> "Incorrect size of axis"]
    ELSE IF ~ isclose_one(SumOfSquares(axis))
    THEN [kind |-> "AssertionError", msg |-> "Non-unit vector", shown |-> axis]
    ELSE Goldstein(angle, axis, old)

rotate_vector(angle, axis, old) ==
    /\ pc = "idle"
    /\ pc' = "returned"
    /\ op' = "rotate_vector"
    /\ args' = [angle |-> angle, axis |-> axis, old |-> old]
    /\ rngBefore' = rngPos
    /\ NoRandomCall
    /\ exps' = 0
    /\ result' = Rotate(angle, axis, old)

----------------------------------------------------------------------------
(* The caller. *)

ReturnToCaller ==
    /\ pc = "returned"
    /\ pc' = "idle"
    /\ op' = "none"
    /\ args' = [none |-> TRUE]
    /\ rngBefore' = rngPos
    /\ calls' = 0
    /\ drawn' = <<>>
    /\ exps' = 0
    /\ result' = [kind |-> "none"]
    /\ UNCHANGED rngPos

----------------------------------------------------------------------------

Init ==
    /\ pc = "idle"
    /\ op = "none"
    /\ args = [none |-> TRUE]
    /\ rngPos = 0
    /\ rngBefore = 0
    /\ calls = 0
    /\ drawn = <<>>
    /\ exps = 0
    /\ result = [kind |-> "none"]

\* A call of each function, with any arguments of the model.
CallRandomVector ==
    /\ pc = "idle"
    /\ random_vector

CallRandomTranslateVector ==
    /\ pc = "idle"
    /\ \E dr_max \in DrMaxs, old \in OldVectors :
           random_translate_vector(dr_max, old)

CallMetropolis ==
    /\ pc = "idle"
    /\ \E delta \in Deltas : metropolis(delta)

CallRotateVector ==
    /\ pc = "idle"
    /\ \E angle \in Angles, axis \in Axes, old \in Olds :
           rotate_vector(angle, axis, old)

Next ==
    \/ CallRandomVector
    \/ CallRandomTranslateVector
    \/ CallMetropolis
    \/ CallRotateVector
    \/ ReturnToCaller

Spec == Init /\ [][Next]_vars

----------------------------------------------------------------------------
(* Properties of metropolis. *)

Returned(f) == pc = "returned" /\ op = f

\* The value the general rule np.exp(-delta) > zeta has for delta and the
\* sample zeta.
GeneralRule(delta, zeta) == GreaterThanSample(np_exp(0 - delta), zeta)

\* C1: for every delta > 75.0 metropolis returns False, makes no call into
\* the random source, leaves its state as it was at entry, and does not
\* evaluate the exponential.
C1_RejectsAboveGuardWithoutDraw ==
    (Returned("metropolis") /\ args.delta > 75) =>
        /\ result = [kind |-> "bool", accept |-> FALSE]
        /\ calls = 0
        /\ drawn = <<>>
        /\ rngPos = rngBefore
        /\ exps = 0

\* A call with delta > 75.0 has returned, after earlier calls have drawn from
\* the random source.
C1_Witness ==
    /\ Returned("metropolis")
    /\ args.delta > 75
    /\ rngPos > 0
    /\ result.accept = FALSE

\* C2: for every delta < 0.0 metropolis returns True, makes no call into the
\* random source and leaves its state as it was at entry.
C2_AcceptsDownhillWithoutDraw ==
    (Returned("metropolis") /\ args.delta < 0) =>
        /\ result = [kind |-> "bool", accept |-> TRUE]
        /\ calls = 0
        /\ drawn = <<>>
        /\ rngPos = rngBefore

\* A call with delta in [-1, 0) has returned True, after earlier calls have
\* drawn from the random source.
C2_Witness ==
    /\ Returned("metropolis")
    /\ args.delta = 0 - 1
    /\ rngPos > 0
    /\ result.accept = TRUE

\* C3: for every delta with 0.0 <= delta <= 75.0, both ends included,
\* metropolis makes one call that draws exactly one sample zeta of [0,1) and
\* returns True iff exp(-delta) > zeta; for delta = 0.0 it returns True
\* whatever the sample.
C3_GeneralCaseDrawsOneSample ==
    (Returned("metropolis") /\ 0 <= args.delta /\ args.delta <= 75) =>
        /\ calls = 1
        /\ Len(drawn) = 1
        /\ drawn[1] \in Samples
        /\ rngPos = rngBefore + 1
        /\ exps = 1
        /\ result = [kind |-> "bool",
                     accept |-> GeneralRule(args.delta, drawn[1])]
        /\ (args.delta = 0 => result.accept = TRUE)
        /\ (args.delta > 0 /\ 1000 * RngDen <= 2718 * drawn[1]
                => result.accept = FALSE)

\* The call with delta = 75.0 has drawn the sample 0.0 and accepted, since
\* exp(-75) > 0.
C3_Witness ==
    /\ Returned("metropolis")
    /\ args.delta = 75
    /\ drawn = <<0>>
    /\ result.accept = TRUE

----------------------------------------------------------------------------
(* Properties of rotate_vector. *)

SquaredLength(v) == v[1] * v[1] + v[2] * v[2] + v[3] * v[3]

C6_SizeChecksInOrder ==
    Returned("rotate_vector") =>
        /\ Len(args.old) # 3 =>
              result = [kind |-> "AssertionError",
                        msg |-> "Incorrect size of old"]
        /\ (Len(args.old) = 3 /\ Len(args.axis.n) # 3) =>
              result = [kind |-> "AssertionError",
                        msg |-> "Incorrect size of axis"]
        /\ (Len(args.old) = 3 /\ Len(args.axis.n) = 3) =>
              (result.kind = "AssertionError" => result.msg = "Non-unit vector")

\* A call with old and axis both of a wrong size has failed on the size of
\* old.
C6_Witness ==
    /\ Returned("rotate_vector")
    /\ Len(args.old) = 4
    /\ Len(args.axis.n) = 2
    /\ result.msg = "Incorrect size of old"

\* C7: whenever rotate_vector returns a vector (axis of unit length, any
\* angle, any 3-vector old), the squared length of the result equals that of
\* old: sum(e_i^2) / den^2 = sum(old_i^2).
C7_RotationPreservesLength ==
    (Returned("rotate_vector") /\ result.kind = "vector") =>
        SquaredLength(result.v) = result.den * result.den * SquaredLength(args.old)

\* A rotation by an angle with cosine 3/5 about the axis (2, 2, 1) / 3 of an
\* old that is neither along the axis nor perpendicular to it has returned.
C7_Witness ==
    /\ Returned("rotate_vector")
    /\ result.kind = "vector"
    /\ args.angle = [c |-> 3, s |-> 4, d |-> 5]
    /\ args.axis = [n |-> <<2, 2, 1>>, d |-> 3]
    /\ args.old = <<1, 0, 0 - 1>>
    /\ Cross(args.axis, args.old) # <<0, 0, 0>>
    /\ Dot(args.axis, args.old) # 0

----------------------------------------------------------------------------
(* Properties of random_translate_vector.  Lengths are in quanta, so        *)
(* dr_max whole units are dr_max * RngDen quanta.                           *)

\* The offset zeta * dr_max the last call added to component i of old.
OffsetOf(i) == Offset(Symmetrize(drawn[i]), args.dr_max)

\* What the last call changed component i by: result - old.
Displacement(i) == result.v[i] - args.old[i]

WithinDrMax(x) ==
    /\ 0 - args.dr_max * RngDen <= x
    /\ x <= args.dr_max * RngDen

\* C8 as stated: for dr_max >= 0 every component of result - old lies in
\* [-dr_max, +dr_max].
C8_DisplacementWithinDrMax ==
    (Returned("random_translate_vector") /\ args.dr_max >= 0) =>
        \A i \in 1..3 : WithinDrMax(Displacement(i))

\* C8 amended: for dr_max >= 0 every component of the offset
\* (2 zeta - 1) * dr_max lies in [-dr_max, +dr_max]; result - old is that
\* offset up to the rounding of the sum old + offset (half the spacing of the
\* floats at the sum, at most), so it lies in [-dr_max, +dr_max] whenever the
\* sum is representable.
C8_OffsetWithinDrMax ==
    (Returned("random_translate_vector") /\ args.dr_max >= 0) =>
        \A i \in 1..3 :
            /\ Len(drawn) = 3
            /\ WithinDrMax(OffsetOf(i))
            /\ 2 * Abs(Displacement(i) - OffsetOf(i))
                   <= Ulp(args.old[i] + OffsetOf(i))
            /\ Representable(args.old[i] + OffsetOf(i)) =>
                   WithinDrMax(Displacement(i))

\* A call with dr_max > 0 has moved one component of old by exactly -dr_max
\* (the sample 0.0) and another by less than dr_max, the sums being
\* representable.
C8_Witness ==
    /\ Returned("random_translate_vector")
    /\ args.dr_max > 0
    /\ drawn[1] = 0
    /\ Displacement(1) = 0 - args.dr_max * RngDen
    /\ Displacement(2) > 0
    /\ Displacement(2) < args.dr_max * RngDen
    /\ \A i \in 1..3 : Representable(args.old[i] + OffsetOf(i))

----------------------------------------------------------------------------
(* Properties of random_vector. *)

\* Sum of the squares of three signed roots, as the rational num / den.
SquaredNorm(v) ==
    [num |-> v[1].num * v[2].den * v[3].den
             + v[2].num * v[1].den * v[3].den
             + v[3].num * v[1].den * v[2].den,
     den |-> v[1].den * v[2].den * v[3].den]

\* Component i of v equals sgn * sqrt(n / d).
IsRoot(x, sgn, n, d) == x.sgn = sgn /\ x.num * d = n * x.den

\* C9: for every two samples u1, u2 random_vector returns a vector, its third
\* component is c = 2 u1 - 1, its first two are s cos(phi) and s sin(phi)
\* with s = sqrt(1 - c^2) and phi = 2 pi u2, its length is 1, and the argument
\* 1 - c^2 of the square root is not negative.
C9_RandomVectorIsUnit ==
    Returned("random_vector") =>
        /\ Len(drawn) = 2
        /\ result.kind = "vector"
        /\ LET c   == 2 * drawn[1] - RngDen
               s2  == RngDen * RngDen - c * c
               phi == EighthTurns(drawn[2])
           IN  /\ s2 >= 0
               /\ IsRoot(result.v[3], Sign(c), c * c, RngDen * RngDen)
               /\ IsRoot(result.v[1], Sign(s2) * np_cos(phi).sgn,
                         s2 * np_cos(phi).num,
                         RngDen * RngDen * np_cos(phi).den)
               /\ IsRoot(result.v[2], Sign(s2) * np_sin(phi).sgn,
                         s2 * np_sin(phi).num,
                         RngDen * RngDen * np_sin(phi).den)
        /\ SquaredNorm(result.v).num = SquaredNorm(result.v).den

\* A call that drew u1 = 3/4 and u2 = 1/4 (c = 1/2, phi a quarter turn) has
\* returned (0, sqrt(3/4), 1/2).
C9_Witness ==
    /\ Returned("random_vector")
    /\ 4 * drawn[1] = 3 * RngDen
    /\ 4 * drawn[2] = RngDen
    /\ result.kind = "vector"
    /\ IsRoot(result.v[1], 0, 0, 1)
    /\ IsRoot(result.v[2], 1, 3, 4)
    /\ IsRoot(result.v[3], 1, 1, 4)

----------------------------------------------------------------------------
(* Calls into the random source. *)

\* C10 as stated: random_translate_vector, metropolis and rotate_vector make
\* at most one call into the random source, random_vector makes two, and no
\* function draws more than that.
C10_OneCallTwoForRandomVector ==
    pc = "returned" =>
        /\ op \in {"random_translate_vector", "metropolis", "rotate_vector"}
              => calls <= 1 /\ Len(drawn) <= 1
        /\ op = "random_vector" => calls = 2 /\ Len(drawn) = 2

\* C10 amended: every function makes at most one call into the random
\* source.  random_vector makes exactly one, which returns two samples;
\* random_translate_vector exactly one, which returns three; metropolis one,
\* which returns one sample, when 0 <= delta <= 75 and none otherwise;
\* rotate_vector none.
C10_AtMostOneCall ==
    pc = "returned" =>
        /\ calls <= 1
        /\ rngPos = rngBefore + Len(drawn)
        /\ op = "random_vector" => calls = 1 /\ Len(drawn) = 2
        /\ op = "random_translate_vector" => calls = 1 /\ Len(drawn) = 3
        /\ op = "metropolis" =>
              IF 0 <= args.delta /\ args.delta <= 75
              THEN calls = 1 /\ Len(drawn) = 1
              ELSE calls = 0 /\ Len(drawn) = 0
        /\ op = "rotate_vector" => calls = 0 /\ Len(drawn) = 0

\* random_translate_vector has returned after one call that drew three
\* samples.
C10_Witness ==
    /\ Returned("random_translate_vector")
    /\ calls = 1
    /\ Len(drawn) = 3
    /\ rngPos = rngBefore + 3

====
